---- MODULE Spec2Model ----
(***************************************************************************)
(* Model of the Amazon cart scraper                                        *)
(* (Budget_System--Processing/cart-scraper/scraper/cart_scraper.py).       *)
(*                                                                         *)
(* Six specifications share this module:                                   *)
(*   SpecPrice  the pure function _parse_price over bounded texts          *)
(*   SpecUrl    the pure function _extract_asins_from_cart_url over        *)
(*              bounded query strings                                      *)
(*   Spec       the orchestrator: lookup_asins, scrape_cart_url and        *)
(*              _lookup_asins_with_quantities, one step per loop iteration *)
(*   SpecSession  the session operations _init_browser, _create_page and   *)
(*              close, called in any order on one scraper object           *)
(*   SpecChain  the loop over price_selectors, over every chain of locator *)
(*              outcomes                                                   *)
(*   SpecHandler  the scrape_cart handler of main.py, with several         *)
(*              requests in progress at the same time                      *)
(*                                                                         *)
(* Texts are sequences of one-character strings.  Amounts are exact        *)
(* decimals [n, s] standing for n / 10^s, kept normalised (no trailing     *)
(* zero in the fraction), so that equal amounts are equal records.         *)
(***************************************************************************)
EXTENDS Integers, Sequences, FiniteSets, TLC

VARIABLES
    price_str, price_out,       \* _parse_price: argument and outcome
    url_in, url_out,            \* _extract_asins_from_cart_url: argument and outcome
    pc,                         \* position of the orchestrator call
    call,                       \* entry point of the call in progress
    fn,                         \* the function whose body is running (or ran last)
    cart_url,                   \* argument of scrape_cart_url
    asins,                      \* argument of lookup_asins (a list of identifiers)
    asins_qty,                  \* argument of _lookup_asins_with_quantities (ordered map)
    idx,                        \* number of loop iterations completed
    items,                      \* local list `items` of the running function
    subtotal,                   \* local `subtotal` of scrape_cart_url
    cart_page,                  \* "none" | "open" | "closed": the page created for the cart URL
    result,                     \* the returned CartResult, or NoResult
    raised,                     \* TRUE when the call ended by raising
    attempts,                   \* history: one record per loop iteration (identifier, environment)
    session,                    \* the scraper object: playwright, browser, context, user_agent
    open_pages,                 \* pages created by the call and still open
    peak_pages,                 \* history: most pages open at the same time during the call
    delays,                     \* history: pacing delays slept by the call
    bringups,                   \* history: outcome of each session bring-up of the call
    cart_load,                  \* history: how loading the cart page turned out
    cart_seen,                  \* history: the matches of the token pattern consulted on the cart page
    s_op, s_prev, s_raised,     \* session operations: the last one, the session before it,
                                \* and whether it raised
    locators, chain_out,        \* a price locator chain: what its locators show, and the
                                \* outcome of the loop over it
    h_pc, h_req, h_scraper,     \* per request of the scrape_cart handler: position, the
    h_response,                 \* request body, the local `scraper`, the response
    scrapers,                   \* the AmazonCartScraper objects constructed so far
    h_calls                     \* history: every call made on a scraper object, by request

priceVars == <<price_str, price_out>>
urlVars   == <<url_in, url_out>>
orchVars  == <<pc, call, fn, cart_url, asins, asins_qty, idx, items, subtotal,
               cart_page, result, raised, attempts>>
pageVars  == <<open_pages, peak_pages, delays, bringups, cart_load, cart_seen>>
probeVars == <<s_op, s_prev, s_raised>>
chainVars == <<locators, chain_out>>
handlerVars == <<h_pc, h_req, h_scraper, h_response, scrapers, h_calls>>
vars      == <<price_str, price_out, url_in, url_out, pc, call, fn, cart_url, asins,
               asins_qty, idx, items, subtotal, cart_page, result, raised, attempts,
               session, open_pages, peak_pages, delays, bringups, cart_load, cart_seen, s_op, s_prev,
               s_raised,
               locators, chain_out, h_pc, h_req, h_scraper, h_response, scrapers, h_calls>>

----------------------------------------------------------------------------
(* Bounds *)

MaxLen    == 4      \* longest enumerated price text
MaxParams == 3      \* most parameters in an enumerated query string
MaxBatch  == 2      \* longest enumerated identifier list
MaxElems  == 2      \* most cart line elements on an enumerated cart page
MaxLaunches == 2    \* most engine launches of one scraper object
MaxPages  == 2      \* most pages opened on one scraper object
MaxRequests == 2    \* most requests of the scrape_cart handler in progress

----------------------------------------------------------------------------
(* Exact decimals *)

RECURSIVE Pow10(_)
Pow10(k) == IF k = 0 THEN 1 ELSE 10 * Pow10(k - 1)

RECURSIVE Normalise(_)
Normalise(d) ==
    IF d.s > 0 /\ d.n % 10 = 0
    THEN Normalise([n |-> d.n \div 10, s |-> d.s - 1])
    ELSE d

Dec(n, s) == Normalise([n |-> n, s |-> s])
DecZero   == [n |-> 0, s |-> 0]

DecAdd(a, b) ==
    LET m == IF a.s > b.s THEN a.s ELSE b.s
    IN  Dec(a.n * Pow10(m - a.s) + b.n * Pow10(m - b.s), m)

DecMulInt(a, k) == Dec(a.n * k, a.s)

DecPositive(a) == a.n > 0

----------------------------------------------------------------------------
(* _parse_price *)

Digits    == {"0", "1", "5"}            \* the digit characters enumerated
Chars     == Digits \cup {",", ".", "$"}
DigitVal(c) == CASE c = "0" -> 0 [] c = "1" -> 1 [] c = "2" -> 2 [] c = "3" -> 3
                 [] c = "4" -> 4 [] c = "5" -> 5 [] c = "6" -> 6 [] c = "7" -> 7
                 [] c = "8" -> 8 [] c = "9" -> 9
AllDigits == {"0", "1", "2", "3", "4", "5", "6", "7", "8", "9"}

\* A price text as handed to _parse_price: None, or a string.
NoneText  == [absent |-> TRUE,  text |-> <<>>]
Str(t)    == [absent |-> FALSE, text |-> t]

Count(t, c) == Cardinality({k \in 1..Len(t) : t[k] = c})
Has(t, c)   == \E k \in 1..Len(t) : t[k] = c
Replace(t, c, d) == [k \in 1..Len(t) |-> IF t[k] = c THEN d ELSE t[k]]
Remove(t, c)     == SelectSeq(t, LAMBDA x : x # c)

\* re.sub(r'[^\d.,]', '', price_str)
IsKept(c)     == c \in AllDigits \cup {",", "."}
StripPrice(t) == SelectSeq(t, IsKept)

\* if ',' in cleaned and '.' in cleaned: remove commas; elif ',' in cleaned: comma -> period
ResolveSeparators(cleaned) ==
    IF Has(cleaned, ",") /\ Has(cleaned, ".") THEN Remove(cleaned, ",")
    ELSE IF Has(cleaned, ",") THEN Replace(cleaned, ",", ".")
    ELSE cleaned

\* float(s) for a string of digits, commas and periods: it parses when there
\* is at least one digit, at most one period and no comma; ValueError otherwise.
FloatParses(s) ==
    /\ \E k \in 1..Len(s) : s[k] \in AllDigits
    /\ \A k \in 1..Len(s) : s[k] \in AllDigits \cup {"."}
    /\ Count(s, ".") <= 1

RECURSIVE DigitsToNat(_)
DigitsToNat(ds) ==
    IF ds = <<>> THEN 0
    ELSE 10 * DigitsToNat(SubSeq(ds, 1, Len(ds) - 1)) + DigitVal(ds[Len(ds)])

FracLen(s) ==
    IF Has(s, ".")
    THEN Len(s) - (CHOOSE k \in 1..Len(s) : s[k] = ".")
    ELSE 0

FloatValue(s) == Dec(DigitsToNat(Remove(s, ".")), FracLen(s))

\* Outcome of a call: a returned amount, or the exception that left the call.
Returned(v)  == [exc |-> "none", value |-> v]
Raised(e)    == [exc |-> e, value |-> DecZero]

\* Variant without the `if not price_str` guard: None reaches re.sub.

ParsePrice_NoGuard(p) ==
    IF p.absent THEN Raised("TypeError")
    ELSE LET cleaned == ResolveSeparators(StripPrice(p.text))
         IN  IF FloatParses(cleaned) THEN Returned(FloatValue(cleaned))
             ELSE Returned(DecZero)

\* Variant with the two separator branches exchanged.

ParsePrice_Swapped(p) ==
    IF p.absent \/ p.text = <<>> THEN Returned(DecZero)
    ELSE LET stripped == StripPrice(p.text)
             cleaned  == IF Has(stripped, ",") /\ Has(stripped, ".")
                         THEN Replace(stripped, ",", ".")
                         ELSE IF Has(stripped, ",") THEN Remove(stripped, ",")
                         ELSE stripped
         IN  IF FloatParses(cleaned) THEN Returned(FloatValue(cleaned))
             ELSE Returned(DecZero)

ParsePrice(p) ==
    IF p.absent \/ p.text = <<>> THEN Returned(DecZero)         \* if not price_str
    ELSE LET cleaned == ResolveSeparators(StripPrice(p.text))
         IN  IF FloatParses(cleaned) THEN Returned(FloatValue(cleaned))
             ELSE Returned(DecZero)                             \* except ValueError

RECURSIVE SeqsUpTo(_, _)
SeqsUpTo(S, n) ==
    IF n = 0 THEN {<<>>}
    ELSE LET shorter == SeqsUpTo(S, n - 1)
         IN  shorter \cup {Append(t, c) : t \in shorter, c \in S}

SamplePriceTexts ==
    { <<"$", "1", ",", "2", "3", "4", ".", "5", "6">>,      \* "$1,234.56"
      <<"1", "2", ",", "5", "0">>,                          \* "12,50"
      <<"g", "a", "r", "b", "a", "g", "e">>,                \* "garbage"
      <<"$", "1", "0", ".", "0", "0">>,                     \* "$10.00"
      <<"1", ",", "2", "3", "4", ",", "5", "6", "7">>,      \* "1,234,567"
      <<"1", ".", "2", ".", "3">> }                         \* "1.2.3"

PriceInputs ==
    {NoneText} \cup {Str(t) : t \in SeqsUpTo(Chars, MaxLen) \cup SamplePriceTexts}

----------------------------------------------------------------------------
(* _extract_asins_from_cart_url *)

\* A cart URL is its query string: a sequence of parameters name.idx=val.
\* Identifier values stand for 10-character codes; "a" is "A" in lower case,
\* "b" is "B" in lower case, "short" is a value that is not a 10-character code.
UpperIds  == {"A", "B", "C", "D", "E", "F", "G", "H", "I", "J", "K"}
LowerIds  == {"a", "b"}
Upper(v)  == CASE v = "a" -> "A" [] v = "b" -> "B" [] OTHER -> v

\* [A-Z0-9]{10} under re.IGNORECASE
IsTenCharCode(v) == v \in UpperIds \cup LowerIds
\* ASIN\.(\d+)= under re.IGNORECASE
IsAsinName(name) == name \in {"ASIN", "asin"}
\* Quantity\.{num}= (case-sensitive)
IsQuantityName(name) == name = "Quantity"
\* (\d+) directly after the '='
StartsWithDigits(v) == v \in {"0", "1", "2", "5"}
IntOf(v) == CASE v = "0" -> 0 [] v = "1" -> 1 [] v = "2" -> 2 [] v = "5" -> 5

Param(name, i, v) == [name |-> name, idx |-> i, val |-> v]

\* re.findall(r'ASIN\.(\d+)=([A-Z0-9]{10})', cart_url, re.IGNORECASE)
AsinMatches(url) ==
    SelectSeq(url, LAMBDA p : IsAsinName(p.name) /\ IsTenCharCode(p.val))

\* re.search(rf'Quantity\.{num}=(\d+)', cart_url): positions that match
QtyMatchPositions(url, num) ==
    {k \in 1..Len(url) : /\ IsQuantityName(url[k].name)
                         /\ url[k].idx = num
                         /\ StartsWithDigits(url[k].val)}

Min(S) == CHOOSE x \in S : \A y \in S : x <= y
Max(S) == CHOOSE x \in S : \A y \in S : x >= y

\* Variant that takes the first quantity parameter whatever its index.

QtyFor_Positional(url, num) ==
    LET ks == {k \in 1..Len(url) : IsQuantityName(url[k].name)
                                   /\ StartsWithDigits(url[k].val)}
    IN  IF ks = {} THEN 1 ELSE IntOf(url[Min(ks)].val)

\* int(qty_match.group(1)) if qty_match else 1
QtyFor(url, num) ==
    LET ks == QtyMatchPositions(url, num)
    IN  IF ks = {} THEN 1 ELSE IntOf(url[Min(ks)].val)

\* An ordered map (a Python dict) is a sequence of entries with distinct keys.
Entry(a, q)  == [asin |-> a, qty |-> q]
Keys(m)      == {m[k].asin : k \in 1..Len(m)}
Lookup(m, a) == (CHOOSE k \in 1..Len(m) : m[k].asin = a)

\* asins_qty[asin] = qty
Put(m, a, q) ==
    IF a \in Keys(m)
    THEN [k \in 1..Len(m) |-> IF m[k].asin = a THEN Entry(a, q) ELSE m[k]]
    ELSE Append(m, Entry(a, q))

RECURSIVE ExtractFrom(_, _, _)
ExtractFrom(url, matches, m) ==
    IF matches = <<>> THEN m
    ELSE LET p == Head(matches)
         IN  ExtractFrom(url, Tail(matches),
                         Put(m, Upper(p.val), QtyFor(url, p.idx)))

ExtractAsinsFromCartUrl(url) == ExtractFrom(url, AsinMatches(url), <<>>)

\* Variant whose pattern takes a value of any length.
AllAsinsUpper_AnyLength(url) ==
    LET ms == SelectSeq(url, LAMBDA p : IsAsinName(p.name))
    IN  [k \in 1..Len(ms) |-> Upper(ms[k].val)]

\* re.findall(r'ASIN\.\d+=([A-Z0-9]{10})', cart_url, re.IGNORECASE), uppercased
AllAsinsUpper(url) ==
    LET ms == AsinMatches(url)
    IN  [k \in 1..Len(ms) |-> Upper(ms[k].val)]

Indexes  == 1..2
UrlParams ==
    { Param("ASIN", 1, "A"), Param("ASIN", 1, "a"), Param("ASIN", 1, "B"),
      Param("ASIN", 2, "A"), Param("ASIN", 2, "B"), Param("asin", 2, "a"),
      Param("ASIN", 1, "short"),
      Param("Quantity", 1, "0"), Param("Quantity", 1, "5"), Param("Quantity", 1, "x"),
      Param("Quantity", 1, "-3"),
      Param("Quantity", 2, "0"), Param("Quantity", 2, "2"), Param("Quantity", 2, "5"),
      Param("Quantity", 2, "x"),
      Param("quantity", 1, "5") }

UrlInputs == SeqsUpTo(UrlParams, MaxParams)

----------------------------------------------------------------------------
(* Line items and results *)

PlaceholderTitle(asin) == <<"Product", asin>>        \* f'Product {asin}'
PageTitle(t)           == <<"page", t>>              \* text read from the page

MkItem(a, t, p, q, lt) ==
    [asin |-> a, title |-> t, unit_price |-> p, quantity |-> q, line_total |-> lt]

\* The dict appended by the except-branch of the two lookup loops.
Placeholder(asin, qty) == MkItem(asin, PlaceholderTitle(asin), DecZero, qty, DecZero)

\* sum(item.get('line_total', 0) for item in items): a left fold from 0
RECURSIVE SumLineTotals(_)
SumLineTotals(its) ==
    IF its = <<>> THEN DecZero
    ELSE DecAdd(SumLineTotals(SubSeq(its, 1, Len(its) - 1)), its[Len(its)].line_total)

CartResult(its, sub) == [items |-> its, subtotal |-> sub, item_count |-> Len(its)]
NoResult == CartResult(<<>>, DecZero)

----------------------------------------------------------------------------
(* Locator chains *)

Absent   == [kind |-> "absent", text |-> <<>>]      \* query_selector returns None
Throws   == [kind |-> "raise",  text |-> <<>>]      \* query_selector / inner_text raises
Text(t)  == [kind |-> "text",   text |-> t]         \* element found, inner_text is t

RECURSIVE FirstPrice(_)

\* Variant that takes the price of the first element found, positive or not.
FirstPrice_AnyElement(chain) ==
    IF chain = <<>> THEN DecZero
    ELSE LET l == Head(chain)
             v == ParsePrice(Str(l.text)).value
         IN  IF l.kind = "text" THEN v
             ELSE FirstPrice(Tail(chain))

\* for selector in price_selectors: ... if price > 0: item['unit_price'] = price; break
\* ... if 'unit_price' not in item: item['unit_price'] = 0.0
FirstPrice(chain) ==
    IF chain = <<>> THEN DecZero
    ELSE LET l == Head(chain)
             v == ParsePrice(Str(l.text)).value
         IN  IF l.kind = "text" /\ DecPositive(v) THEN v
             ELSE FirstPrice(Tail(chain))

T10 == <<"$", "1", "0", ".", "0", "0">>              \* "$10.00"
T5  == <<"$", "5", ".", "0", "0">>                   \* "$5.00"
T12 == <<"1", "2", ",", "5", "0">>                   \* "12,50"
TNA == <<"N", "/", "A">>                             \* "N/A"
T0  == <<"0", ".", "0", "0">>                        \* "0.00"

\* The locators the loop over price_selectors queried: every one up to and
\* including the one that ended the loop with `break`.
RECURSIVE PriceQueries(_)
PriceQueries(chain) ==
    IF chain = <<>> THEN 0
    ELSE LET l == Head(chain)
             v == ParsePrice(Str(l.text)).value
         IN  IF l.kind = "text" /\ DecPositive(v) THEN 1
             ELSE 1 + PriceQueries(Tail(chain))

\* What one locator of a chain may show.
LocatorOutcomes == {Absent, Throws, Text(T10), Text(T5), Text(TNA), Text(T0)}

\* The price_selectors lists: three locators in _extract_cart_item, four in
\* _lookup_single_asin.
CartPriceSelectors    == 3
ProductPriceSelectors == 4
PriceChains ==
    [1..CartPriceSelectors -> LocatorOutcomes]
    \cup [1..ProductPriceSelectors -> LocatorOutcomes]

NoChainOut == [price |-> DecZero, queried |-> 0]

----------------------------------------------------------------------------
(* _lookup_single_asin *)

NoItem == MkItem("", <<"none", "">>, DecZero, 0, DecZero)   \* stands for None

\* What one product page shows: the '#productTitle' element and the four
\* price locators of price_selectors, in list order.
ProductPages ==
    { [title |-> Text(<<"T">>), prices |-> <<Text(T10), Absent, Absent, Absent>>],
      [title |-> Text(<<"T">>), prices |-> <<Text(TNA), Throws, Text(T5), Text(T10)>>],
      [title |-> Absent,        prices |-> <<Absent, Absent, Absent, Text(T12)>>],
      [title |-> Absent,        prices |-> <<Absent, Absent, Absent, Absent>>] }

\* How one loop iteration's awaits turn out.
\*   create   _create_page() of the loop:  "ok" | "raise"
\*   stale    page.is_closed() at the head of _lookup_single_asin: the engine
\*            was lost after the page was created
\*   recreate _create_page() for the replacement page: "ok" | "raise"
\*   nav      page.goto():          "ok" | "timeout" | "error"
\*   page     the product page shown when navigation succeeds
\*   query    page.query_selector('#productTitle'): "ok" | "raise"
\*   close    page.close() of the loop:  "ok" | "raise"
AnyPage == CHOOSE pg \in ProductPages : TRUE

StepEnvs ==
    [create : {"raise"}, stale : {FALSE}, recreate : {"ok"}, nav : {"ok"}, query : {"ok"},
     page : {AnyPage}, close : {"ok"}]
    \cup [create : {"ok"}, stale : {FALSE}, recreate : {"ok"}, nav : {"timeout", "error"},
          query : {"ok"}, page : {AnyPage}, close : {"ok", "raise"}]
    \cup [create : {"ok"}, stale : {FALSE}, recreate : {"ok"}, nav : {"ok"}, query : {"raise"},
          page : {AnyPage}, close : {"ok", "raise"}]
    \cup [create : {"ok"}, stale : {FALSE}, recreate : {"ok"}, nav : {"ok"}, query : {"ok"},
          page : ProductPages, close : {"ok", "raise"}]
    \cup [create : {"ok"}, stale : {TRUE}, recreate : {"raise"}, nav : {"ok"}, query : {"ok"},
          page : {AnyPage}, close : {"ok"}]
    \cup [create : {"ok"}, stale : {TRUE}, recreate : {"ok"}, nav : {"ok", "timeout"},
          query : {"ok"}, page : {AnyPage}, close : {"ok"}]

\* Body of _lookup_single_asin for the page created by the caller: the item,
\* or None when the replacement page cannot be created, or goto or an
\* element query raises (both except-branches return None).
\* wait_for_selector, the price locators and the image query swallow their
\* own exceptions.
LookupSingleAsin(env, asin) ==
    IF env.stale /\ env.recreate = "raise" THEN NoItem   \* except Exception
    ELSE IF env.nav # "ok" THEN NoItem                   \* except PlaywrightTimeout / Exception
    ELSE IF env.query = "raise" THEN NoItem         \* except Exception
    ELSE LET title == IF env.page.title.kind = "text"
                      THEN PageTitle(env.page.title.text)
                      ELSE PlaceholderTitle(asin)
             price == FirstPrice(env.page.prices)
         IN  MkItem(asin, title, price, 1, price)   \* quantity = 1, line_total = unit_price

\* Which step of the iteration failed, for the history.
FailedStep(env) ==
    IF env.create = "raise" THEN "create"
    ELSE IF env.stale /\ env.recreate = "raise" THEN "recreate"
    ELSE IF env.nav # "ok" THEN "nav"
    ELSE IF env.query = "raise" THEN "extract"
    ELSE "none"

\* History of one iteration: the identifier, the step that failed, what
\* _lookup_single_asin returned (NoItem when it was not reached or gave None)
\* and whether page.close() raised.
Attempt(asin, env) ==
    [asin |-> asin, failed |-> FailedStep(env),
     found |-> IF env.create = "ok" THEN LookupSingleAsin(env, asin) ELSE NoItem,
     closeRaised |-> (env.create = "ok" /\ ~env.stale /\ env.close = "raise")]

----------------------------------------------------------------------------
(* _extract_cart_item *)

\* for selector in title_selectors: ... if title and len(title) > 3: ...; break
\* (title texts of the model are short and carry no surrounding blanks, so
\* strip()[:200] leaves them as they are)
RECURSIVE FirstTitle(_, _)
FirstTitle(chain, asin) ==
    IF chain = <<>> THEN PlaceholderTitle(asin)
    ELSE LET l == Head(chain)
         IN  IF l.kind = "text" /\ Len(l.text) > 3 THEN PageTitle(l.text)
             ELSE FirstTitle(Tail(chain), asin)

\* int(re.sub(r'\D', '', qty_val) or 1)
QtyOfText(t) ==
    LET ds == SelectSeq(t, LAMBDA c : c \in AllDigits)
    IN  IF ds = <<>> THEN 1 ELSE DigitsToNat(ds)

\* item['quantity'] = 1; for selector in qty_selectors: ... if qty_val: ... if qty > 0: ...; break
RECURSIVE FirstQuantity(_)
FirstQuantity(chain) ==
    IF chain = <<>> THEN 1
    ELSE LET l == Head(chain)
         IN  IF l.kind = "text" /\ l.text # <<>> /\ QtyOfText(l.text) > 0
             THEN QtyOfText(l.text)
             ELSE FirstQuantity(Tail(chain))

\* A cart line element: the data-asin attribute ("" when missing), the
\* data-item-id attribute as its '|'-separated segments (<<>> when missing),
\* whether get_attribute raises, and the locator chains of the three fields.
CartElements ==
    { [data_asin |-> "A", item_id |-> <<>>, raises |-> FALSE,
       titles |-> <<Text(<<"M", "u", "g", "s">>), Absent, Absent, Absent>>,
       prices |-> <<Text(T10), Absent, Absent>>,
       qtys   |-> <<Text(<<"2">>), Absent, Absent>>],
      [data_asin |-> "", item_id |-> <<"B", "77">>, raises |-> FALSE,
       titles |-> <<Text(<<"P", "e", "n">>), Absent, Absent, Absent>>,
       prices |-> <<Absent, Throws, Text(TNA)>>,
       qtys   |-> <<Absent, Absent, Absent>>],
      [data_asin |-> "B", item_id |-> <<>>, raises |-> FALSE,
       titles |-> <<Absent, Throws, Absent, Text(<<"I", "n", "k", " ", "1">>)>>,
       prices |-> <<Text(TNA), Text(T5), Text(T10)>>,
       qtys   |-> <<Text(<<"0">>), Text(<<"x", "3">>), Absent>>],
      [data_asin |-> "", item_id |-> <<>>, raises |-> FALSE,
       titles |-> <<Absent, Absent, Absent, Absent>>,
       prices |-> <<Absent, Absent, Absent>>,
       qtys   |-> <<Absent, Absent, Absent>>],
      [data_asin |-> "", item_id |-> <<>>, raises |-> TRUE,
       titles |-> <<Absent, Absent, Absent, Absent>>,
       prices |-> <<Absent, Absent, Absent>>,
       qtys   |-> <<Absent, Absent, Absent>>] }

\* asin = data-asin, else the first '|'-segment of data-item-id (the whole
\* value when it has no '|'); None when neither gives one.
ElementAsin(el) ==
    IF el.data_asin # "" THEN el.data_asin
    ELSE IF el.item_id # <<>> THEN el.item_id[1]
    ELSE ""

\* item['line_total'] = item['unit_price'] * item['quantity']
LineTotalOf(price, qty) == DecMulInt(price, qty)

\* Outcome of _extract_cart_item: "raise" (an attribute read raised), "none"
\* (no identifier: return None) or "item".
ExtractCartItem(el) ==
    IF el.raises THEN [kind |-> "raise", item |-> NoItem]
    ELSE IF ElementAsin(el) = "" THEN [kind |-> "none", item |-> NoItem]
    ELSE LET a == ElementAsin(el)
             p == FirstPrice(el.prices)
             q == FirstQuantity(el.qtys)
         IN  [kind |-> "item",
              item |-> MkItem(a, FirstTitle(el.titles, a), p, q, LineTotalOf(p, q))]

\* Variant that adds the unit price instead of the line total.

Accumulate_ByUnitPrice(acc, item) ==
    [items |-> Append(acc.items, item), subtotal |-> DecAdd(acc.subtotal, item.unit_price)]

\* items.append(item_data); subtotal += item_data.get('line_total', 0)
Accumulate(acc, item) ==
    [items |-> Append(acc.items, item), subtotal |-> DecAdd(acc.subtotal, item.line_total)]

\* for item_el in cart_items: try: ... except Exception: (logged, next element)
RECURSIVE ProcessCartItems(_, _)
ProcessCartItems(els, acc) ==
    IF els = <<>> THEN acc
    ELSE LET r == ExtractCartItem(Head(els))
         IN  ProcessCartItems(Tail(els),
                              IF r.kind = "item" THEN Accumulate(acc, r.item) ELSE acc)

----------------------------------------------------------------------------
(* The session: _init_browser, _create_page, close *)

NumUserAgents == 4
UserAgents    == 1..NumUserAgents            \* positions in USER_AGENTS
SampleAgents  == {1, NumUserAgents}          \* the agents drawn while a request is served

\* The fields of the scraper object.  A handle is 0 for None; a browser
\* handle is the number of the launch that made it, a context handle is the
\* browser it was created from.  `connected` is browser.is_connected();
\* `launches` counts the engines launched so far.  `drivers`, `engines` and
\* `contexts` count what the session has created and is still alive.
NewSession(ua) ==
    [playwright |-> 0, browser |-> 0, connected |-> FALSE, context |-> 0,
     user_agent |-> ua, launches |-> 0, drivers |-> 0, engines |-> 0, contexts |-> 0]

\* What the handles of the session refer to is alive: an engine until it is
\* closed or lost, a context as long as its engine.
EngineAlive(s)  == s.browser # 0 /\ s.connected
ContextAlive(s) == s.context # 0 /\ s.context = s.browser /\ s.connected
DriverAlive(s)  == s.playwright # 0

\* How a bring-up turns out: it succeeds, or async_playwright().start(),
\* firefox.launch() or browser.new_context() raises.
InitOutcomes == {"ok", "start_raise", "launch_raise", "context_raise"}

\* if self.browser is None or not self.browser.is_connected()
NeedsBringUp(s) == s.browser = 0 \/ ~s.connected

\* Variant that clears self.playwright without stopping the driver.
Teardown_KeepDriver(s) ==
    [s EXCEPT !.context = 0, !.browser = 0, !.connected = FALSE, !.playwright = 0,
              !.contexts = IF ContextAlive(s) THEN s.contexts - 1 ELSE s.contexts,
              !.engines  = IF EngineAlive(s) THEN s.engines - 1 ELSE s.engines]

\* "Close any existing resources first": context, browser and driver are
\* closed if held, each handle is cleared; an exception of a close is
\* swallowed and the resource counts as released.
Teardown(s) ==
    [s EXCEPT !.context = 0, !.browser = 0, !.connected = FALSE, !.playwright = 0,
              !.contexts = IF ContextAlive(s) THEN s.contexts - 1 ELSE s.contexts,
              !.engines  = IF EngineAlive(s) THEN s.engines - 1 ELSE s.engines,
              !.drivers  = IF DriverAlive(s) THEN s.drivers - 1 ELSE s.drivers]

\* The bring-up inside _init_browser: the teardown, then driver, engine and
\* context are created in that order; the first one that raises leaves the
\* later fields cleared.
BringUp(s, out, ua) ==
    LET torn     == Teardown(s)
        started  == [torn EXCEPT !.playwright = 1, !.drivers = torn.drivers + 1]
        launched == [started EXCEPT !.browser = s.launches + 1, !.connected = TRUE,
                                    !.launches = s.launches + 1, !.user_agent = ua,
                                    !.engines = started.engines + 1]
    IN  IF out = "start_raise" THEN [session |-> torn, raised |-> TRUE]
        ELSE IF out = "launch_raise" THEN [session |-> started, raised |-> TRUE]
        ELSE IF out = "context_raise" THEN [session |-> launched, raised |-> TRUE]
        ELSE [session |-> [launched EXCEPT !.context = launched.browser,
                                           !.contexts = launched.contexts + 1],
              raised |-> FALSE]

\* Variant without the connected-check: every call brings the session up again.
InitBrowser_NoGuard(s, out, ua) == BringUp(s, out, ua)

\* _init_browser
InitBrowser(s, out, ua) ==
    IF NeedsBringUp(s) THEN BringUp(s, out, ua)
    ELSE [session |-> s, raised |-> FALSE]

\* _create_page: _init_browser, then self.context.new_page() (which raises
\* when self.context is None or when the engine refuses).  `page` tells
\* whether a page handle was created.
CreatePage(s, out, ua, newpage) ==
    LET r == InitBrowser(s, out, ua)
    IN  IF r.raised THEN [session |-> r.session, raised |-> TRUE, page |-> FALSE]
        ELSE IF r.session.context = 0 \/ newpage = "raise"
        THEN [session |-> r.session, raised |-> TRUE, page |-> FALSE]
        ELSE [session |-> r.session, raised |-> FALSE, page |-> TRUE]

\* How close() turns out: browser.close() or playwright.stop() may raise.
CloseOutcomes == {"ok", "browser_raise", "stop_raise"}

\* close(): nothing catches an exception of browser.close() or
\* playwright.stop(); self.context is not touched.  Closing the engine
\* closes its context with it.
CloseSession(s, out) ==
    IF s.browser # 0 /\ out = "browser_raise" THEN [session |-> s, raised |-> TRUE]
    ELSE LET s1 == [s EXCEPT !.browser = 0, !.connected = FALSE,
                             !.contexts = IF ContextAlive(s) THEN s.contexts - 1
                                          ELSE s.contexts,
                             !.engines  = IF EngineAlive(s) THEN s.engines - 1
                                          ELSE s.engines]
         IN  IF s1.playwright # 0 /\ out = "stop_raise"
             THEN [session |-> s1, raised |-> TRUE]
             ELSE [session |-> [s1 EXCEPT !.playwright = 0,
                                          !.drivers = IF DriverAlive(s1) THEN s1.drivers - 1
                                                      ELSE s1.drivers],
                   raised |-> FALSE]

\* The engine dies or the connection to it is lost; its context goes with it.
Disconnected(s) ==
    [s EXCEPT !.connected = FALSE,
              !.contexts = IF ContextAlive(s) THEN s.contexts - 1 ELSE s.contexts,
              !.engines  = IF EngineAlive(s) THEN s.engines - 1 ELSE s.engines]

\* The choices made by the environment in one _create_page call.
CreateChoices == [init : InitOutcomes, ua : UserAgents, newpage : {"ok", "raise"}]

\* The choices that make a difference to a _create_page call on session s:
\* the bring-up outcome counts when there is a bring-up, random.choice when
\* the bring-up gets as far as the launch, and new_page when the bring-up (if
\* any) succeeds.  Every other choice is pinned to one value.
CreateChoicesFor(s, agents) ==
    {co \in CreateChoices :
        /\ co.ua \in agents \cup {s.user_agent}
        /\ ~NeedsBringUp(s) => co.init = "ok"
        /\ (~NeedsBringUp(s) \/ co.init \in {"start_raise", "launch_raise"})
              => co.ua = s.user_agent
        /\ co.init # "ok" => co.newpage = "ok"}

\* What the bring-up check of one _init_browser call did, for the history.
BringUpNote(s, out) ==
    IF ~NeedsBringUp(s) THEN <<>>
    ELSE IF out = "ok" THEN <<"ok">> ELSE <<"failed">>

----------------------------------------------------------------------------
(* The per-item loops *)

BatchLimit == 10

\* asins[:10]
Batch(list) == SubSeq(list, 1, IF Len(list) < BatchLimit THEN Len(list) ELSE BatchLimit)

\* Variant that puts the new item in front of the list.
LookupAsinsIter_Prepend(its, asin, env) ==
    IF env.create = "raise" THEN <<Placeholder(asin, 1)>> \o its
    ELSE LET item_data == LookupSingleAsin(env, asin)
         IN  IF item_data # NoItem THEN <<item_data>> \o its ELSE its

\* One iteration of the loop of lookup_asins.  _simulate_human_behavior
\* swallows its exceptions and asyncio.sleep raises none that `except
\* Exception` would catch, so neither changes the items.  An exception of _create_page
\* reaches the except-branch (placeholder); _lookup_single_asin never raises
\* and its None is not appended; an exception of page.close() is swallowed.
LookupAsinsIter(its, asin, env) ==
    IF env.create = "raise" THEN Append(its, Placeholder(asin, 1))
    ELSE LET item_data == LookupSingleAsin(env, asin)
         IN  IF item_data # NoItem THEN Append(its, item_data) ELSE its

\* Variant that sets the quantity and leaves line_total as looked up.

MergeQuantity_KeepTotal(item, qty) == [item EXCEPT !.quantity = qty]

\* item_data['quantity'] = qty; item_data['line_total'] = item_data['unit_price'] * qty
MergeQuantity(item, qty) ==
    [item EXCEPT !.quantity = qty, !.line_total = DecMulInt(item.unit_price, qty)]

\* Variant that appends the looked-up item without the URL quantity.

LookupQtyIter_NoMerge(its, e, env) ==
    IF env.create = "raise"
    THEN [items |-> Append(its, Placeholder(e.asin, e.qty)), raises |-> FALSE]
    ELSE LET item_data == LookupSingleAsin(env, e.asin)
         IN  [items  |-> IF item_data # NoItem THEN Append(its, item_data) ELSE its,
              raises |-> ~env.stale /\ env.close = "raise"]

\* One iteration of the loop of _lookup_asins_with_quantities: the items
\* after it, and whether page.close() in the finally-branch raised (nothing
\* catches that exception, it leaves the function).
LookupQtyIter(its, e, env) ==
    IF env.create = "raise"
    THEN [items |-> Append(its, Placeholder(e.asin, e.qty)), raises |-> FALSE]
    ELSE LET item_data == LookupSingleAsin(env, e.asin)
         IN  [items  |-> IF item_data # NoItem
                         THEN Append(its, MergeQuantity(item_data, e.qty))
                         ELSE its,
              raises |-> ~env.stale /\ env.close = "raise"]

\* Variant that always takes the page-scrape strategy.

UseUrlMap_Never(m) == FALSE

\* if asins_qty: return await self._lookup_asins_with_quantities(asins_qty)
UseUrlMap(m) == m # <<>>

\* The environment of an iteration agrees with what _create_page does.
Consistent(s, env, co) ==
    (env.create = "raise") <=> CreatePage(s, co.init, co.ua, co.newpage).raised

\* The session after one iteration: the _create_page of the loop and, when
\* the engine was lost before _lookup_single_asin looked at the page, the
\* _create_page for the replacement page.
StepSession(s, env, co) ==
    LET cp == CreatePage(s, co.init, co.ua, co.newpage)
    IN  IF cp.raised \/ ~env.stale THEN cp.session
        ELSE CreatePage(Disconnected(cp.session),
                        IF env.recreate = "ok" THEN "ok" ELSE "start_raise",
                        co.ua, "ok").session

\* The bring-ups of one iteration, in order.
StepBringUps(s, env, co) ==
    LET cp == CreatePage(s, co.init, co.ua, co.newpage)
    IN  BringUpNote(s, co.init)
        \o (IF ~cp.raised /\ env.stale
            THEN BringUpNote(Disconnected(cp.session),
                             IF env.recreate = "ok" THEN "ok" ELSE "start_raise")
            ELSE <<>>)

\* The open pages after one iteration that began with n of them.  A lost
\* engine closes all its pages; the replacement page is a local of
\* _lookup_single_asin and the finally-branch of the loop closes only the
\* page the loop created, when that one is still open.  A page whose close()
\* raised is not closed.
PagesAfterStep(n, env) ==
    IF env.create = "raise" THEN n
    ELSE IF env.stale THEN (IF env.recreate = "ok" THEN 1 ELSE 0)
    ELSE IF env.close = "raise" THEN n + 1
    ELSE n

\* await asyncio.sleep(self._random_delay()): the last statement of the
\* try-block, reached when nothing before it raised.
\* The most pages open at the same time during one iteration that began
\* with n of them: the page of the iteration is created while they are open.
PeakOfStep(n, env) == IF env.create = "raise" THEN n ELSE n + 1

DelaysOfStep(env) == IF env.create = "ok" THEN 1 ELSE 0

----------------------------------------------------------------------------
(* Requests *)

RequestIds == {"A", "B"}
AsinLists  == SeqsUpTo(RequestIds, MaxBatch)

\* A request of one identifier more than the batch limit, and a request
\* whose identifier is not in upper case (the handler passes request.asins on
\* as received).
LongList    == <<"A", "B", "C", "D", "E", "F", "G", "H", "I", "J", "K">>
SampleLists == {LongList, <<"a">>}
LongUrl     == [k \in 1..Len(LongList) |-> Param("ASIN", k, LongList[k])]

\* The environments of an iteration of a batch of n identifiers: a long
\* batch meets product pages that load or time out.
EnvsFor(n) ==
    IF n < BatchLimit THEN StepEnvs
    ELSE {e \in StepEnvs : /\ e.create = "ok" /\ ~e.stale /\ e.close = "ok"
                           /\ e.query = "ok" /\ e.nav \in {"ok", "timeout"}
                           /\ e.page = AnyPage}

CartUrls ==
    { <<Param("ASIN", 1, "A"), Param("Quantity", 1, "2"),
        Param("ASIN", 2, "B"), Param("Quantity", 2, "1")>>,
      <<Param("asin", 1, "b")>>,
      <<Param("ASIN", 1, "A"), Param("Quantity", 1, "0"), Param("ASIN", 2, "B")>>,
      <<Param("ASIN", 2, "a"), Param("Quantity", 2, "5"), Param("ASIN", 1, "B")>>,
      <<Param("ASIN", 1, "short"), Param("Quantity", 1, "2")>>,
      LongUrl,
      <<Param("ASIN", 1, "B"), Param("ASIN", 2, "A"), Param("asin", 3, "b")>>,
      <<>> }

\* list(set(asin_matches)): the distinct tokens of the page, in any order
TokenLists ==
    {t \in SeqsUpTo(RequestIds, Cardinality(RequestIds)) :
        \A j, k \in 1..Len(t) : j # k => t[j] # t[k]}

ElementLists == SeqsUpTo(CartElements, MaxElems)

\* re.findall(r'data-asin="([A-Z0-9]{10})"', html): the matches in page
\* order, repeated as often as the markup repeats them
TokenMatches == SeqsUpTo(RequestIds, Cardinality(RequestIds)) \cup {LongList}

\* Variant that keeps the matches as found.
UniqueAsins_Raw(matches) == {matches}

\* list(set(asin_matches)): every distinct match once, in any order
UniqueAsins(matches) ==
    {t \in TokenLists \cup {LongList} :
        {t[k] : k \in 1..Len(t)} = {matches[k] : k \in 1..Len(matches)}}

\* What the page-scrape path consulted on a usable cart page, for the
\* history: whether an item selector matched, and the token matches when
\* none did.
NothingSeen == [usable |-> FALSE, containers |-> FALSE, matches |-> <<>>]
Seen(nav, blocked, els, matches) ==
    IF nav # "ok" \/ blocked THEN NothingSeen
    ELSE [usable |-> TRUE, containers |-> els # <<>>,
          matches |-> IF els = <<>> THEN matches ELSE <<>>]

----------------------------------------------------------------------------
(* scrape_cart_url, strategy 2: the part between page creation and return *)

EmptyAcc == [items |-> <<>>, subtotal |-> DecZero]

GoLookup(list) == [kind |-> "lookup", list |-> list, acc |-> EmptyAcc]
GoReturn(acc)  == [kind |-> "return", list |-> <<>>, acc |-> acc]
GoRaise        == [kind |-> "raise",  list |-> <<>>, acc |-> EmptyAcc]

\* What the try-block of scrape_cart_url does with the cart page:
\*   nav      page.goto(cart_url): "ok" | "timeout" | "error"
\*   blocked  "Something went wrong" in html or len(html) < 5000
\*   els      the elements of the first item selector that matches any
\*   tokens   list(set(re.findall(r'data-asin="([A-Z0-9]{10})"', html)))
\* It ends in a nested lookup_asins call, a return of the accumulated items,
\* or an exception.
ScrapePage(url, nav, blocked, els, tokens) ==
    IF nav = "timeout"
    THEN IF AllAsinsUpper(url) # <<>> THEN GoLookup(AllAsinsUpper(url)) ELSE GoRaise
    ELSE IF nav = "error" THEN GoRaise
    ELSE IF blocked
    THEN IF AllAsinsUpper(url) # <<>> THEN GoLookup(AllAsinsUpper(url))
         ELSE GoReturn(EmptyAcc)
    ELSE IF els = <<>> /\ tokens # <<>> THEN GoLookup(tokens)
    ELSE GoReturn(ProcessCartItems(els, EmptyAcc))

----------------------------------------------------------------------------
(* The scrape_cart handler: requests and scraper objects *)

Requests == 1..MaxRequests

\* A request body: the mode, and whether the field that mode needs is given
\* (cart_url for 'cart_url', a non-empty asins for 'asin_list').
NoRequest       == [mode |-> "none", given |-> FALSE]
HandlerRequests ==
    { [mode |-> "cart_url",  given |-> TRUE],
      [mode |-> "cart_url",  given |-> FALSE],
      [mode |-> "asin_list", given |-> TRUE],
      [mode |-> "bulk",      given |-> TRUE] }

\* if not request.cart_url / if not request.asins / else: HTTPException 400
ValidRequest(req) == req.mode \in {"cart_url", "asin_list"} /\ req.given

\* The orchestrator method the handler calls for a mode.
MethodFor(req) == IF req.mode = "cart_url" THEN "scrape_cart_url" ELSE "lookup_asins"

\* Variant with one scraper object for the whole module.
Construct_Shared(objs, ua) == IF objs = <<>> THEN <<NewSession(ua)>> ELSE objs

\* scraper = AmazonCartScraper(): a new object on every invocation
Construct(objs, ua) == Append(objs, NewSession(ua))

\* One call on a scraper object, for the history.
Call(id, r, op) == [id |-> id, r |-> r, op |-> op]


\* lookup_asins(asins), called by the client
CallLookupAsins ==
    /\ pc = "idle"
    /\ \E list \in AsinLists \cup SampleLists :
         /\ asins' = list
         /\ call' = "lookup_asins"
         /\ fn' = "lookup_asins"
         /\ pc' = "lookup"
    /\ UNCHANGED <<cart_url, asins_qty, idx, items, subtotal, cart_page, result,
                   raised, attempts>>
    /\ UNCHANGED <<handlerVars, chainVars, priceVars, urlVars, session, pageVars, probeVars>>

\* one iteration of `for asin in asins[:10]`
LookupAsinsStep ==
    /\ pc = "lookup"
    /\ idx < Len(Batch(asins))
    /\ \E env \in EnvsFor(Len(Batch(asins))), co \in CreateChoicesFor(session, SampleAgents) :
         LET asin == Batch(asins)[idx + 1]
         IN  /\ Consistent(session, env, co)
             /\ items' = LookupAsinsIter(items, asin, env)
             /\ attempts' = Append(attempts, Attempt(asin, env))
             /\ session' = StepSession(session, env, co)
             /\ bringups' = bringups \o StepBringUps(session, env, co)
             /\ open_pages' = PagesAfterStep(open_pages, env)
             /\ peak_pages' = Max({peak_pages, PeakOfStep(open_pages, env)})
             /\ delays' = delays + DelaysOfStep(env)
             /\ cart_page' = IF cart_page = "open" /\ env.create = "ok" /\ env.stale
                             THEN "closed" ELSE cart_page
    /\ idx' = idx + 1
    /\ UNCHANGED <<pc, call, fn, cart_url, asins, asins_qty, subtotal, result, raised>>
    /\ UNCHANGED <<handlerVars, chainVars, priceVars, urlVars, cart_load, cart_seen, probeVars>>

\* the end of lookup_asins; when scrape_cart_url called it, the finally-branch
\* of scrape_cart_url closes the cart page (if it is still open) before the
\* result reaches the client
LookupAsinsReturn ==
    /\ pc = "lookup"
    /\ idx = Len(Batch(asins))
    /\ pc' = "done"
    /\ \E close \in {"ok", "raise"} :
         /\ cart_page # "open" => close = "ok"
         /\ raised' = (close = "raise")
         /\ result' = IF close = "raise" THEN NoResult
                      ELSE CartResult(items, SumLineTotals(items))
         /\ open_pages' = IF cart_page = "open" /\ close = "ok"
                          THEN open_pages - 1 ELSE open_pages
    /\ cart_page' = IF cart_page = "open" THEN "closed" ELSE cart_page
    /\ UNCHANGED <<call, fn, cart_url, asins, asins_qty, idx, items, subtotal, attempts>>
    /\ UNCHANGED <<handlerVars, chainVars, priceVars, urlVars, session, peak_pages, delays, bringups,
                   cart_load, cart_seen, probeVars>>

\* scrape_cart_url(cart_url), called by the client: strategy 1 hands the map
\* of the URL to _lookup_asins_with_quantities, strategy 2 creates the page
\* for the cart URL (an exception of _create_page leaves the call).
CallScrapeCartUrl ==
    /\ pc = "idle"
    /\ \E url \in CartUrls, co \in CreateChoicesFor(session, SampleAgents) :
         LET m  == ExtractAsinsFromCartUrl(url)
             cp == CreatePage(session, co.init, co.ua, co.newpage)
         IN  /\ cart_url' = url
             /\ IF UseUrlMap(m)
                THEN /\ fn' = "_lookup_asins_with_quantities"
                     /\ asins_qty' = m
                     /\ pc' = "lookup_qty"
                     /\ UNCHANGED <<cart_page, raised, session, open_pages, peak_pages,
                                    bringups>>
                ELSE /\ fn' = "scrape_cart_url"
                     /\ asins_qty' = asins_qty
                     /\ pc' = IF cp.raised THEN "done" ELSE "cart_page"
                     /\ cart_page' = IF cp.raised THEN "none" ELSE "open"
                     /\ raised' = cp.raised
                     /\ session' = cp.session
                     /\ open_pages' = IF cp.page THEN open_pages + 1 ELSE open_pages
                     /\ peak_pages' = IF cp.page THEN Max({peak_pages, open_pages + 1})
                                      ELSE peak_pages
                     /\ bringups' = bringups \o BringUpNote(session, co.init)
    /\ call' = "scrape_cart_url"
    /\ UNCHANGED <<asins, idx, items, subtotal, result, attempts>>
    /\ UNCHANGED <<handlerVars, chainVars, priceVars, urlVars, delays, cart_load, cart_seen, probeVars>>

\* one iteration of `for asin, qty in asins_qty.items()`
LookupQtyStep ==
    /\ pc = "lookup_qty"
    /\ idx < Len(asins_qty)
    /\ \E env \in EnvsFor(Len(asins_qty)), co \in CreateChoicesFor(session, SampleAgents) :
         LET e == asins_qty[idx + 1]
             r == LookupQtyIter(items, e, env)
         IN  /\ Consistent(session, env, co)
             /\ items' = r.items
             /\ attempts' = Append(attempts, Attempt(e.asin, env))
             /\ raised' = r.raises
             /\ pc' = IF r.raises THEN "done" ELSE pc
             /\ session' = StepSession(session, env, co)
             /\ bringups' = bringups \o StepBringUps(session, env, co)
             /\ open_pages' = PagesAfterStep(open_pages, env)
             /\ peak_pages' = Max({peak_pages, PeakOfStep(open_pages, env)})
             /\ delays' = delays + DelaysOfStep(env)
    /\ idx' = idx + 1
    /\ UNCHANGED <<call, fn, cart_url, asins, asins_qty, subtotal, cart_page, result>>
    /\ UNCHANGED <<handlerVars, chainVars, priceVars, urlVars, cart_load, cart_seen, probeVars>>

\* the end of _lookup_asins_with_quantities
LookupQtyReturn ==
    /\ pc = "lookup_qty"
    /\ idx = Len(asins_qty)
    /\ pc' = "done"
    /\ result' = CartResult(items, SumLineTotals(items))
    /\ UNCHANGED <<call, fn, cart_url, asins, asins_qty, idx, items, subtotal, cart_page,
                   raised, attempts>>
    /\ UNCHANGED <<handlerVars, chainVars, priceVars, urlVars, session, pageVars, probeVars>>

\* How loading the cart page turned out, for the history.
CartLoad(nav, blocked) ==
    IF nav # "ok" THEN nav ELSE IF blocked THEN "blocked" ELSE "usable"

\* scrape_cart_url from page.goto to the return statement, finally-branch included
ScrapeCartPage ==
    /\ pc = "cart_page"
    /\ \E nav \in {"ok", "timeout", "error"}, blocked \in BOOLEAN,
          els \in ElementLists, matches \in TokenMatches, close \in {"ok", "raise"} :
       \E tokens \in UniqueAsins(matches) :
         LET out == ScrapePage(cart_url, nav, blocked, els, tokens)
         IN  /\ cart_load' = CartLoad(nav, blocked)
             /\ cart_seen' = Seen(nav, blocked, els, matches)
             /\ IF out.kind = "lookup"
                THEN /\ close = "ok"
                     /\ asins' = out.list
                     /\ fn' = "lookup_asins"
                     /\ pc' = "lookup"
                     /\ UNCHANGED <<items, subtotal, cart_page, result, raised, open_pages>>
                ELSE /\ items' = out.acc.items
                     /\ subtotal' = out.acc.subtotal
                     /\ cart_page' = "closed"
                     /\ pc' = "done"
                     /\ raised' = (out.kind = "raise" \/ close = "raise")
                     /\ result' = IF out.kind = "raise" \/ close = "raise" THEN NoResult
                                  ELSE CartResult(out.acc.items, out.acc.subtotal)
                     /\ open_pages' = IF close = "ok" THEN open_pages - 1 ELSE open_pages
                     /\ UNCHANGED <<asins, fn>>
    /\ UNCHANGED <<call, cart_url, asins_qty, idx, attempts>>
    /\ UNCHANGED <<handlerVars, chainVars, priceVars, urlVars, session, peak_pages, delays, bringups,
                   probeVars>>

\* The state of a call that has not begun, with the session in state s.
Idle(s) ==
    /\ cart_url = <<>> /\ asins = <<>> /\ asins_qty = <<>>
    /\ idx = 0 /\ items = <<>> /\ subtotal = DecZero
    /\ cart_page = "none" /\ result = NoResult /\ raised = FALSE
    /\ attempts = <<>>
    /\ session = s
    /\ open_pages = 0 /\ peak_pages = 0 /\ delays = 0 /\ bringups = <<>> /\ cart_load = "none"
    /\ cart_seen = NothingSeen
    /\ s_op = "__init__" /\ s_prev = s /\ s_raised = FALSE
    /\ chain_out = NoChainOut
    /\ h_pc = [r \in Requests |-> "idle"]
    /\ h_req = [r \in Requests |-> NoRequest]
    /\ h_scraper = [r \in Requests |-> 0]
    /\ h_response = [r \in Requests |-> "none"]
    /\ scrapers = <<>>
    /\ h_calls = {}

\* The handler constructs a scraper for the request: self.user_agent is
\* random.choice(USER_AGENTS).
Init ==
    /\ price_str = NoneText /\ price_out = Returned(DecZero)
    /\ url_in = <<>> /\ url_out = <<>>
    /\ pc = "idle" /\ call = "none" /\ fn = "none"
    /\ \E ua \in SampleAgents : Idle(NewSession(ua))
    /\ locators = <<>>

Next ==
    \/ CallLookupAsins
    \/ LookupAsinsStep
    \/ LookupAsinsReturn
    \/ CallScrapeCartUrl
    \/ LookupQtyStep
    \/ LookupQtyReturn
    \/ ScrapeCartPage

Spec == Init /\ [][Next]_vars

----------------------------------------------------------------------------
(* The pure functions, applied to every bounded input *)

InitPrice ==
    /\ price_str \in PriceInputs /\ price_out = Returned(DecZero)
    /\ url_in = <<>> /\ url_out = <<>>
    /\ pc = "price_in" /\ call = "_parse_price" /\ fn = "_parse_price"
    /\ Idle(NewSession(1))
    /\ locators = <<>>

CallParsePrice ==
    /\ pc = "price_in"
    /\ price_out' = ParsePrice(price_str)
    /\ pc' = "price_out"
    /\ UNCHANGED <<price_str, urlVars, call, fn, cart_url, asins, asins_qty, idx, items,
                   subtotal, cart_page, result, raised, attempts>>
    /\ UNCHANGED <<session, pageVars, probeVars, chainVars, handlerVars>>

NextPrice == CallParsePrice

SpecPrice == InitPrice /\ [][NextPrice]_vars

InitUrl ==
    /\ price_str = NoneText /\ price_out = Returned(DecZero)
    /\ url_in \in UrlInputs /\ url_out = <<>>
    /\ pc = "url_in" /\ call = "_extract_asins_from_cart_url"
    /\ fn = "_extract_asins_from_cart_url"
    /\ Idle(NewSession(1))
    /\ locators = <<>>

CallExtractAsinsFromCartUrl ==
    /\ pc = "url_in"
    /\ url_out' = ExtractAsinsFromCartUrl(url_in)
    /\ pc' = "url_out"
    /\ UNCHANGED <<url_in, priceVars, call, fn, cart_url, asins, asins_qty, idx, items,
                   subtotal, cart_page, result, raised, attempts>>
    /\ UNCHANGED <<session, pageVars, probeVars, chainVars, handlerVars>>

NextUrl == CallExtractAsinsFromCartUrl

SpecUrl == InitUrl /\ [][NextUrl]_vars

----------------------------------------------------------------------------
(* The loop over price_selectors, applied to every chain of locator outcomes *)

InitChain ==
    /\ price_str = NoneText /\ price_out = Returned(DecZero)
    /\ url_in = <<>> /\ url_out = <<>>
    /\ pc = "chain_in" /\ call = "price_selectors" /\ fn = "price_selectors"
    /\ Idle(NewSession(1))
    /\ locators \in PriceChains

\* for selector in price_selectors: ...; if 'unit_price' not in item: ...
QueryPriceChain ==
    /\ pc = "chain_in"
    /\ chain_out' = [price |-> FirstPrice(locators), queried |-> PriceQueries(locators)]
    /\ pc' = "chain_out"
    /\ UNCHANGED <<locators, priceVars, urlVars, call, fn, cart_url, asins, asins_qty, idx,
                   items, subtotal, cart_page, result, raised, attempts>>
    /\ UNCHANGED <<session, pageVars, probeVars, handlerVars>>

NextChain == QueryPriceChain

SpecChain == InitChain /\ [][NextChain]_vars

----------------------------------------------------------------------------
(* The scrape_cart handler, with requests in progress at the same time *)

InitHandler ==
    /\ price_str = NoneText /\ price_out = Returned(DecZero)
    /\ url_in = <<>> /\ url_out = <<>>
    /\ pc = "handler" /\ call = "none" /\ fn = "none"
    /\ Idle(NewSession(1))
    /\ locators = <<>>

\* What a step of the handler leaves alone.
HandlerFrame ==
    UNCHANGED <<priceVars, urlVars, orchVars, session, pageVars, probeVars, chainVars>>

\* a request arrives: `scraper = AmazonCartScraper()`, the first statement
\* of the try-block
HandlerBegin(r) ==
    /\ pc = "handler"
    /\ h_pc[r] = "idle"
    /\ \E req \in HandlerRequests, ua \in SampleAgents :
         LET objs == Construct(scrapers, ua)
         IN  /\ h_req' = [h_req EXCEPT ![r] = req]
             /\ scrapers' = objs
             /\ h_scraper' = [h_scraper EXCEPT ![r] = Len(objs)]
             /\ h_calls' = h_calls \cup {Call(Len(objs), r, "__init__")}
    /\ h_pc' = [h_pc EXCEPT ![r] = "constructed"]
    /\ UNCHANGED h_response
    /\ HandlerFrame

\* the mode checks; a valid request goes on to `await scraper.scrape_cart_url`
\* or `await scraper.lookup_asins`, whose first await brings the session of
\* its scraper up and asks it for a page
HandlerCall(r) ==
    /\ pc = "handler"
    /\ h_pc[r] = "constructed"
    /\ IF ~ValidRequest(h_req[r])
       THEN /\ h_response' = [h_response EXCEPT ![r] = "http_400"]
            /\ h_pc' = [h_pc EXCEPT ![r] = "returned"]
            /\ UNCHANGED <<scrapers, h_calls>>
       ELSE \E co \in CreateChoicesFor(scrapers[h_scraper[r]], {}) :
              LET id == h_scraper[r]
                  cp == CreatePage(scrapers[id], co.init, co.ua, co.newpage)
              IN  /\ scrapers' = [scrapers EXCEPT ![id] = cp.session]
                  /\ h_calls' = h_calls \cup {Call(id, r, MethodFor(h_req[r]))}
                  /\ h_pc' = [h_pc EXCEPT ![r] = "running"]
                  /\ UNCHANGED h_response
    /\ UNCHANGED <<h_req, h_scraper>>
    /\ HandlerFrame

\* the orchestrator call ends: its result becomes the success response, an
\* exception the success=False response; the handler returns
HandlerReturn(r) ==
    /\ pc = "handler"
    /\ h_pc[r] = "running"
    /\ \E out \in {"success", "failed"} :
         h_response' = [h_response EXCEPT ![r] = out]
    /\ h_pc' = [h_pc EXCEPT ![r] = "returned"]
    /\ UNCHANGED <<h_req, h_scraper, scrapers, h_calls>>
    /\ HandlerFrame

NextHandler ==
    \E r \in Requests :
        \/ HandlerBegin(r)
        \/ HandlerCall(r)
        \/ HandlerReturn(r)

SpecHandler == InitHandler /\ [][NextHandler]_vars

----------------------------------------------------------------------------
(* The session operations, called in any order on one scraper object *)

InitSession ==
    /\ price_str = NoneText /\ price_out = Returned(DecZero)
    /\ url_in = <<>> /\ url_out = <<>>
    /\ pc = "session" /\ call = "none" /\ fn = "none"
    /\ \E ua \in UserAgents : Idle(NewSession(ua))
    /\ locators = <<>>

\* What a session operation leaves alone.
SessionFrame ==
    UNCHANGED <<priceVars, urlVars, orchVars, peak_pages, delays, bringups, cart_load, cart_seen,
                chainVars, handlerVars>>

\* await self._init_browser()
SessInitBrowser ==
    /\ pc = "session"
    /\ \E out \in InitOutcomes, ua \in UserAgents :
         LET r == InitBrowser(session, out, ua)
         IN  /\ r.session.launches <= MaxLaunches
             /\ session' = r.session
             /\ s_raised' = r.raised
    /\ s_op' = "_init_browser"
    /\ s_prev' = session
    /\ UNCHANGED open_pages
    /\ SessionFrame

\* await self._create_page()
SessCreatePage ==
    /\ pc = "session"
    /\ \E co \in CreateChoicesFor(session, UserAgents) :
         LET r == CreatePage(session, co.init, co.ua, co.newpage)
         IN  /\ r.session.launches <= MaxLaunches
             /\ open_pages < MaxPages
             /\ session' = r.session
             /\ s_raised' = r.raised
             /\ open_pages' = IF r.page THEN open_pages + 1 ELSE open_pages
    /\ s_op' = "_create_page"
    /\ s_prev' = session
    /\ SessionFrame

\* the engine is lost: its pages are closed with it
SessDisconnect ==
    /\ pc = "session"
    /\ session.browser # 0 /\ session.connected
    /\ session' = Disconnected(session)
    /\ open_pages' = 0
    /\ s_op' = "disconnect"
    /\ s_prev' = session
    /\ s_raised' = FALSE
    /\ SessionFrame

\* await self.close(); browser.close() closes the pages of the browser
SessClose ==
    /\ pc = "session"
    /\ \E out \in CloseOutcomes :
         LET r == CloseSession(session, out)
         IN  /\ session' = r.session
             /\ s_raised' = r.raised
             /\ open_pages' = IF session.browser # 0 /\ r.session.browser = 0
                              THEN 0 ELSE open_pages
    /\ s_op' = "close"
    /\ s_prev' = session
    /\ SessionFrame

NextSession ==
    \/ SessInitBrowser
    \/ SessCreatePage
    \/ SessDisconnect
    \/ SessClose

SpecSession == InitSession /\ [][NextSession]_vars

----------------------------------------------------------------------------
(* Properties of the per-item batches *)

\* The call has returned a CartResult to its caller.
ReturnedResult == pc = "done" /\ ~raised

\* The loop that ran is a per-item batch: the list of requested
\* [identifier, quantity] pairs (quantity 1 for an identifier list).
InBatch     == fn \in {"lookup_asins", "_lookup_asins_with_quantities"}
Requested   ==
    IF fn = "lookup_asins"
    THEN [k \in 1..Len(Batch(asins)) |-> Entry(Batch(asins)[k], 1)]
    ELSE asins_qty

\* Sum of the line totals of a list of items, from the last item backwards.
RECURSIVE TotalOf(_)
TotalOf(its) ==
    IF its = <<>> THEN DecZero ELSE DecAdd(Head(its).line_total, TotalOf(Tail(its)))

\* C1: a per-item batch of n identifiers returns exactly n items, the k-th
\* for the k-th requested identifier; an identifier whose lookup failed is
\* represented by the placeholder (unit_price 0, line_total 0, title
\* 'Product <identifier>', the requested quantity) and subtotal is the sum of
\* the line totals of the items.
C1_OneItemPerIdentifier ==
    (InBatch /\ ReturnedResult) =>
        /\ Len(result.items) = Len(Requested)
        /\ \A k \in 1..Len(Requested) :
             k <= Len(result.items) /\ k <= Len(attempts) =>
               /\ result.items[k].asin = Requested[k].asin
               /\ attempts[k].failed # "none" =>
                    result.items[k] = Placeholder(Requested[k].asin, Requested[k].qty)
        /\ result.subtotal = TotalOf(result.items)

\* C2: a failure while processing one identifier never aborts the batch:
\* when the per-item batch ends, every requested identifier has been
\* attempted, in order, and the call has returned a result instead of raising.
\* (lookup_asins called by the client, or _lookup_asins_with_quantities.)
C2_FailureNeverAbortsBatch ==
    (InBatch /\ cart_page = "none" /\ pc = "done") =>
        /\ ~raised
        /\ Len(attempts) = Len(Requested)
        /\ \A k \in 1..Len(attempts) : attempts[k].asin = Requested[k].asin

\* C3: every returned result has subtotal = sum of the line totals of its
\* items and item_count = number of its items, on every return path.
C3_SubtotalAndCount ==
    ReturnedResult =>
        /\ result.subtotal = TotalOf(result.items)
        /\ result.item_count = Len(result.items)

C3_Witness ==
    /\ ReturnedResult
    /\ fn = "scrape_cart_url"
    /\ Len(result.items) = 2
    /\ \E k \in 1..2 : result.items[k].quantity > 1 /\ DecPositive(result.items[k].line_total)
    /\ \E k \in 1..2 : result.items[k].quantity = 3 /\ result.items[k].line_total = Dec(15, 0)
    /\ result.subtotal = Dec(35, 0)

\* C4: every item of a returned result has line_total = unit_price x quantity.
C4_LineTotalIsProduct ==
    ReturnedResult =>
        \A k \in 1..Len(result.items) :
            result.items[k].line_total
                = DecMulInt(result.items[k].unit_price, result.items[k].quantity)

C4_Witness ==
    /\ ReturnedResult
    /\ fn = "_lookup_asins_with_quantities"
    /\ \E k \in 1..Len(result.items) :
         /\ result.items[k].quantity = 5
         /\ result.items[k].unit_price = Dec(125, 1)
         /\ result.items[k].line_total = Dec(625, 1)

\* The attempts of the batch all succeeded (no step failed, no close raised).
AllLookupsSucceeded ==
    /\ Len(attempts) = Len(Requested)
    /\ \A k \in 1..Len(attempts) : attempts[k].failed = "none"

\* C5: for a cart URL with a non-empty identifier-to-quantity map whose
\* lookups all succeed, the result has one item per map entry, in map order,
\* with the URL quantity, line_total = looked-up unit price x that quantity,
\* and subtotal their sum; {A: 2, B: 1} at unit prices 10 and 5 gives line
\* totals 20 and 5, subtotal 25, item_count 2.
C5_DirectUrlAllSucceed ==
    (call = "scrape_cart_url" /\ fn = "_lookup_asins_with_quantities"
        /\ ReturnedResult /\ AllLookupsSucceeded) =>
        /\ asins_qty = ExtractAsinsFromCartUrl(cart_url)
        /\ Len(result.items) = Len(asins_qty)
        /\ result.item_count = Len(asins_qty)
        /\ \A k \in 1..Len(asins_qty) :
             /\ result.items[k].asin = asins_qty[k].asin
             /\ result.items[k].quantity = asins_qty[k].qty
             /\ result.items[k].unit_price = attempts[k].found.unit_price
             /\ result.items[k].line_total
                    = DecMulInt(attempts[k].found.unit_price, asins_qty[k].qty)
        /\ result.subtotal = TotalOf(result.items)
        /\ (/\ asins_qty = <<Entry("A", 2), Entry("B", 1)>>
            /\ attempts[1].found.unit_price = Dec(10, 0)
            /\ attempts[2].found.unit_price = Dec(5, 0))
           => /\ result.items[1].line_total = Dec(20, 0)
              /\ result.items[2].line_total = Dec(5, 0)
              /\ result.subtotal = Dec(25, 0)
              /\ result.item_count = 2

C5_Witness ==
    /\ call = "scrape_cart_url" /\ fn = "_lookup_asins_with_quantities"
    /\ ReturnedResult /\ AllLookupsSucceeded
    /\ asins_qty = <<Entry("A", 2), Entry("B", 1)>>
    /\ attempts[1].found.unit_price = Dec(10, 0)
    /\ attempts[2].found.unit_price = Dec(5, 0)
    /\ result.subtotal = Dec(25, 0)

\* C6: when the cart URL yields a non-empty map, scrape_cart_url never creates
\* (or navigates) a page for the cart URL and runs the per-item lookups with
\* exactly that map; the page-scrape strategy is entered only when the map is
\* empty.
C6_DirectUrlSkipsPageScrape ==
    call = "scrape_cart_url" =>
        /\ ExtractAsinsFromCartUrl(cart_url) # <<>> =>
             /\ cart_page = "none"
             /\ pc \in {"lookup_qty", "done"}
             /\ fn = "_lookup_asins_with_quantities"
             /\ asins_qty = ExtractAsinsFromCartUrl(cart_url)
        /\ (cart_page # "none" \/ pc = "cart_page" \/ fn # "_lookup_asins_with_quantities") =>
             ExtractAsinsFromCartUrl(cart_url) = <<>>

C6_Witness ==
    /\ call = "scrape_cart_url"
    /\ ExtractAsinsFromCartUrl(cart_url) # <<>>
    /\ ReturnedResult
    /\ Len(attempts) = 2
    /\ cart_page = "none"

----------------------------------------------------------------------------
(* Properties of _extract_asins_from_cart_url *)

\* Positions of the indexed identifier parameters of a query string.
IdParams(url) ==
    {k \in 1..Len(url) : IsAsinName(url[k].name) /\ IsTenCharCode(url[k].val)}

\* Positions of the parameters Quantity.<num> whose value is a number.
NumberQtyParams(url, num) ==
    {k \in 1..Len(url) : /\ url[k].name = "Quantity" /\ url[k].idx = num
                         /\ url[k].val \in {"0", "1", "2", "5"}}

\* The identifier parameter that decides the entry of identifier a: the last
\* one carrying it (a later assignment to the same key replaces the earlier).
DecidingParam(url, a) == Max({k \in IdParams(url) : Upper(url[k].val) = a})

\* C7: the returned map has exactly one key per distinct identifier found,
\* in upper case whatever the case in the URL, and no other key; a key is
\* mapped to the value of the (first numeric) quantity parameter with the
\* index of its identifier parameter when that value is positive, and to 1
\* when the URL has no numeric quantity parameter with that index.
C7_ExactCartMap ==
    pc = "url_out" =>
        /\ Keys(url_out) = {Upper(url_in[k].val) : k \in IdParams(url_in)}
        /\ Keys(url_out) \subseteq UpperIds
        /\ Cardinality(Keys(url_out)) = Len(url_out)
        /\ \A j \in 1..Len(url_out) :
             LET num == url_in[DecidingParam(url_in, url_out[j].asin)].idx
                 qs  == NumberQtyParams(url_in, num)
             IN  IF qs = {} THEN url_out[j].qty = 1
                 ELSE IntOf(url_in[Min(qs)].val) > 0
                        => url_out[j].qty = IntOf(url_in[Min(qs)].val)

C7_Witness ==
    /\ pc = "url_out"
    /\ url_in = <<Param("asin", 2, "a"), Param("ASIN", 1, "B"), Param("Quantity", 2, "5")>>
    /\ url_out = <<Entry("A", 5), Entry("B", 1)>>

\* C8: every quantity of the returned map is a positive integer; a quantity
\* parameter whose value is zero, negative or not a number gives 1.
C8_QuantitiesPositive ==
    pc = "url_out" => \A j \in 1..Len(url_out) : url_out[j].qty >= 1

----------------------------------------------------------------------------
(* Properties of _parse_price *)

DigitCount(t) == Cardinality({k \in 1..Len(t) : t[k] \in AllDigits})

\* C9: _parse_price never raises, and returns 0 when the input is absent or
\* empty, when the text has no digit, when it has several periods, and when
\* it has several commas and no period.
C9_NeverRaisesZeroOnFailure ==
    pc = "price_out" =>
        /\ price_out.exc = "none"
        /\ ( \/ price_str.absent
             \/ price_str.text = <<>>
             \/ DigitCount(price_str.text) = 0
             \/ Count(price_str.text, ".") >= 2
             \/ (Count(price_str.text, ",") >= 2 /\ Count(price_str.text, ".") = 0) )
           => price_out.value = DecZero

C9_Witness ==
    /\ pc = "price_out"
    /\ ~price_str.absent
    /\ DigitCount(price_str.text) >= 2
    /\ Count(price_str.text, ",") >= 2
    /\ Count(price_str.text, ".") = 0
    /\ price_out = Returned(DecZero)

\* The amount a text of digits and periods denotes (0 when it is no decimal number).
AmountOf(t) == IF FloatParses(t) THEN FloatValue(t) ELSE DecZero

\* C10: with both a comma and a period in the text the commas are dropped
\* before parsing ("$1,234.56" is 1234.56); with commas and no period every
\* comma is read as a period ("12,50" is 12.5); without a comma the stripped
\* text is parsed as it stands.
C10_SeparatorResolution ==
    (pc = "price_out" /\ ~price_str.absent) =>
        LET t == price_str.text
            kept == SelectSeq(t, LAMBDA c : c \in AllDigits \cup {",", "."})
        IN  /\ (Has(t, ",") /\ Has(t, ".")) =>
                   price_out.value = AmountOf(SelectSeq(kept, LAMBDA c : c # ","))
            /\ (Has(t, ",") /\ ~Has(t, ".")) =>
                   price_out.value = AmountOf([k \in 1..Len(kept) |->
                                                 IF kept[k] = "," THEN "." ELSE kept[k]])
            /\ ~Has(t, ",") => price_out.value = AmountOf(kept)
            /\ t = <<"$", "1", ",", "2", "3", "4", ".", "5", "6">> =>
                   price_out.value = [n |-> 123456, s |-> 2]
            /\ t = <<"1", "2", ",", "5", "0">> => price_out.value = [n |-> 125, s |-> 1]

C10_Witness ==
    /\ pc = "price_out"
    /\ price_str = Str(<<"$", "1", ",", "2", "3", "4", ".", "5", "6">>)
    /\ price_out = Returned([n |-> 123456, s |-> 2])

----------------------------------------------------------------------------
(* Properties of pacing, pages and the session while a request is served *)

\* C11: in a per-item batch one pacing delay is slept after the attempt of
\* every identifier, failed attempts included, so that a batch that attempted
\* all its N identifiers has slept at least N-1 delays.
C11_DelayAfterEveryAttempt ==
    InBatch =>
        /\ delays = Len(attempts)
        /\ (pc = "done" /\ Len(attempts) = Len(Requested)) =>
               delays >= Len(Requested) - 1

\* C12: when a call of lookup_asins, _lookup_asins_with_quantities or
\* scrape_cart_url has returned or raised, every page it created (the
\* replacement page of _lookup_single_asin included) has been closed.
C12_PagesClosedAtExit == pc = "done" => open_pages = 0

\* C13: a call performs at most 10 per-item lookups, through lookup_asins as
\* well as through _lookup_asins_with_quantities.
C13_AtMostTenLookups == InBatch => Len(attempts) <= BatchLimit

\* C14: a session bring-up that fails is the last bring-up of the call, and
\* the call ends by raising to its caller.
C14_BringUpFailureIsFatal ==
    \A k \in 1..Len(bringups) :
        bringups[k] = "failed" =>
            /\ k = Len(bringups)
            /\ pc = "done" => raised

\* C18: every item of a returned result carries a canonical identifier (ten
\* upper-case alphanumeric characters); an identifier that is not canonical
\* yields no item.
C18_IdentifiersCanonical ==
    ReturnedResult =>
        \A k \in 1..Len(result.items) : result.items[k].asin \in UpperIds

\* C19: a cart-page navigation that timed out is recovered by the
\* identifier-list fallback: the call returns a CartResult and does not raise.
C19_TimeoutRecovered ==
    (cart_load = "timeout" /\ pc = "done") => (~raised /\ result # NoResult)

\* C20: a cart page classified as blocked is not scraped and the call does
\* not raise: it returns the per-item lookup of the identifiers of the URL
\* when there are any, and otherwise the empty CartResult.
C20_BlockedPageYieldsFallbackOrEmpty ==
    (cart_load = "blocked" /\ pc = "done") =>
        /\ ~raised
        /\ fn = "scrape_cart_url" =>
              (AllAsinsUpper(cart_url) = <<>> /\ result = CartResult(<<>>, DecZero))
        /\ fn = "lookup_asins" =>
              (asins = AllAsinsUpper(cart_url) /\ asins # <<>>
               /\ result = CartResult(items, SumLineTotals(items)))

----------------------------------------------------------------------------
(* Properties of the session operations *)

\* C15: _init_browser on a session whose browser is set and connected is a
\* no-op: playwright, browser, context and user_agent are what they were,
\* nothing was launched, and the call did not raise -- on every such call, so
\* that repeated calls have the effect of one.
C15_InitBrowserNoOpWhenConnected ==
    (s_op = "_init_browser" /\ s_prev.browser # 0 /\ s_prev.connected) =>
        (session = s_prev /\ ~s_raised)

C15_Witness ==
    /\ s_op = "_init_browser"
    /\ s_prev.browser # 0 /\ s_prev.connected /\ s_prev.context # 0
    /\ s_prev.launches = 2
    /\ session = s_prev

\* C16: close() never raises, and close() on a session that close() has
\* already torn down changes nothing.
C16_CloseNeverRaisesIdempotent ==
    s_op = "close" =>
        /\ ~s_raised
        /\ (s_prev.browser = 0 /\ s_prev.playwright = 0) => session = s_prev

\* C17: after close() has returned the session holds no handle: context,
\* browser and playwright are all cleared (and no page is open).
C17_CloseClearsEveryHandle ==
    (s_op = "close" /\ ~s_raised) =>
        /\ session.context = 0 /\ session.browser = 0 /\ session.playwright = 0
        /\ open_pages = 0

----------------------------------------------------------------------------
(* Properties of the locator chains *)

\* A locator qualifies when its element exists and its text normalises to a
\* price greater than 0.
Qualifies(l) == l.kind = "text" /\ DecPositive(ParsePrice(Str(l.text)).value)

\* C21: the price locators are queried in list order; the first one that
\* qualifies gives unit_price and is the last one queried; a locator that
\* finds nothing, raises or normalises to 0 is passed over; when none
\* qualifies every locator was queried and unit_price is 0.
C21_FirstQualifyingPriceWins ==
    pc = "chain_out" =>
        LET Q == {k \in 1..Len(locators) : Qualifies(locators[k])}
        IN  IF Q = {}
            THEN chain_out = [price |-> DecZero, queried |-> Len(locators)]
            ELSE LET first == CHOOSE k \in Q : \A j \in Q : k <= j
                 IN  /\ chain_out.price = ParsePrice(Str(locators[first].text)).value
                     /\ chain_out.queried = first
                     /\ DecPositive(chain_out.price)

C21_Witness ==
    /\ pc = "chain_out"
    /\ locators = <<Text(TNA), Throws, Text(T5), Text(T10)>>
    /\ chain_out = [price |-> Dec(5, 0), queried |-> 3]

----------------------------------------------------------------------------
(* Properties of the returned items *)

\* C22: the title of every returned item is the placeholder 'Product
\* <identifier>' or a text of the page that is longer than 3 characters.
C22_TitleLongerThanThree ==
    ReturnedResult =>
        \A k \in 1..Len(result.items) :
            LET it == result.items[k]
            IN  \/ it.title = PlaceholderTitle(it.asin)
                \/ (it.title[1] = "page" /\ Len(it.title[2]) > 3)

\* The identifiers of a list of items or of [identifier, quantity] pairs.
AsinsOf(list) == [k \in 1..Len(list) |-> list[k].asin]

\* The elements of a sequence, each at its first occurrence.
RECURSIVE FirstOccurrences(_)
FirstOccurrences(seq) ==
    IF seq = <<>> THEN <<>>
    ELSE LET init == FirstOccurrences(SubSeq(seq, 1, Len(seq) - 1))
             last == seq[Len(seq)]
         IN  IF \E k \in 1..Len(init) : init[k] = last THEN init ELSE Append(init, last)

\* The attempts that left an item in the list: the placeholder of a failed
\* page creation or the item that was found.
Yielding == SelectSeq(attempts, LAMBDA a : a.failed = "create" \/ a.found # NoItem)

\* C23: the items of a returned result are in lookup order.  The lookups
\* follow the requested list (for a cart URL: the identifiers of the URL, each
\* at its first occurrence), and the items are those of the lookups that
\* yielded one, in the same order.
C23_ItemsInLookupOrder ==
    (InBatch /\ ReturnedResult) =>
        /\ AsinsOf(attempts) = SubSeq(AsinsOf(Requested), 1, Len(attempts))
        /\ AsinsOf(result.items) = AsinsOf(Yielding)
        /\ fn = "_lookup_asins_with_quantities" =>
              AsinsOf(Requested) = FirstOccurrences(AllAsinsUpper(cart_url))

C23_Witness ==
    /\ ReturnedResult
    /\ fn = "_lookup_asins_with_quantities"
    /\ cart_url = <<Param("ASIN", 1, "B"), Param("ASIN", 2, "A"), Param("asin", 3, "b")>>
    /\ AsinsOf(result.items) = <<"B", "A">>

----------------------------------------------------------------------------
(* Properties of the session handles *)

\* C24: whenever _init_browser has returned normally, the browser is
\* connected and the context is set and was created from that browser.
C24_InitBrowserPostcondition ==
    (s_op = "_init_browser" /\ ~s_raised) =>
        /\ session.browser # 0 /\ session.connected
        /\ session.context # 0 /\ session.context = session.browser

\* C25: a session never has more than one driver, one engine and one
\* context alive, and a bring-up leaves no handle of what it replaced:
\* whatever handle is set after it was set by it.
C25_OneEngineOneContext ==
    /\ session.drivers <= 1 /\ session.engines <= 1 /\ session.contexts <= 1
    /\ (s_op \in {"_init_browser", "_create_page"} /\ NeedsBringUp(s_prev)) =>
          /\ session.browser \in {0, s_prev.launches + 1}
          /\ session.context \in {0, session.browser}

C25_Witness ==
    /\ s_op = "_init_browser" /\ ~s_raised
    /\ s_prev.browser # 0 /\ ~s_prev.connected /\ s_prev.context # 0
    /\ s_prev.playwright # 0
    /\ session.launches = 2 /\ session.browser = 2 /\ session.context = 2
    /\ session.drivers = 1 /\ session.engines = 1 /\ session.contexts = 1

----------------------------------------------------------------------------
(* Properties of the pages and of the page-scrape path *)

\* C26: during a call of scrape_cart_url or lookup_asins at most one page
\* is open at a time.
C26_AtMostOnePageOpen == peak_pages <= 1

\* The distinct tokens among the matches consulted on the cart page.
SeenTokens == {cart_seen.matches[k] : k \in 1..Len(cart_seen.matches)}

\* C27: on a usable cart page without item containers the distinct tokens of
\* the markup go to lookup_asins, each is looked up once (ten of them when
\* there are more), and the result of that lookup is the result of
\* scrape_cart_url; with neither containers nor tokens the result is the
\* empty CartResult.
C27_TokenFallback ==
    (cart_seen.usable /\ ~cart_seen.containers) =>
        /\ (cart_seen.matches # <<>>) =>
              /\ fn = "lookup_asins"
              /\ Len(asins) = Cardinality(SeenTokens)
              /\ \A k \in 1..Len(attempts) :
                    /\ attempts[k].asin \in SeenTokens
                    /\ \A j \in 1..Len(attempts) : attempts[j].asin = attempts[k].asin => j = k
              /\ pc = "done" => Len(attempts) = Min({Cardinality(SeenTokens), BatchLimit})
              /\ ReturnedResult => result = CartResult(items, SumLineTotals(items))
        /\ (cart_seen.matches = <<>> /\ ReturnedResult) =>
              (fn = "scrape_cart_url" /\ result = CartResult(<<>>, DecZero))

C27_Witness ==
    /\ cart_seen.usable /\ cart_seen.matches = <<"B", "B">>
    /\ ReturnedResult /\ fn = "lookup_asins"
    /\ AsinsOf(attempts) = <<"B">>
    /\ Len(result.items) = 1

\* C28: on the page-scrape path the second scan of the cart URL, in the
\* blocked-page branch and in the timeout handler, finds no identifier, and
\* neither of them starts a per-item lookup.
C28_RescanFindsNothing ==
    cart_load \in {"blocked", "timeout"} =>
        /\ AllAsinsUpper(cart_url) = <<>>
        /\ fn = "scrape_cart_url"
        /\ attempts = <<>>

C28_Witness ==
    /\ cart_load = "blocked" /\ pc = "done"
    /\ cart_url = <<Param("ASIN", 1, "short"), Param("Quantity", 1, "2")>>
    /\ fn = "scrape_cart_url" /\ attempts = <<>>

----------------------------------------------------------------------------
(* Properties of the scrape_cart handler *)

\* C29: when the handler has returned, close() has been called on the
\* scraper it constructed for the request, on the success path and on every
\* error path.
C29_HandlerClosesSession ==
    \A r \in Requests :
        h_pc[r] = "returned" => Call(h_scraper[r], r, "close") \in h_calls

\* C30: requests never share a session: every request has a scraper object
\* of its own, and every call on a scraper object comes from the request
\* that constructed it.
C30_NoSharedSession ==
    /\ \A r1, r2 \in Requests :
          (r1 # r2 /\ h_scraper[r1] # 0 /\ h_scraper[r2] # 0) =>
              h_scraper[r1] # h_scraper[r2]
    /\ \A c1, c2 \in h_calls : c1.id = c2.id => c1.r = c2.r

C30_Witness ==
    /\ h_pc[1] = "running" /\ h_pc[2] = "running"
    /\ h_scraper[1] # h_scraper[2]
    /\ EngineAlive(scrapers[h_scraper[1]]) /\ EngineAlive(scrapers[h_scraper[2]])
    /\ Call(h_scraper[1], 1, "lookup_asins") \in h_calls
    /\ Call(h_scraper[2], 2, "scrape_cart_url") \in h_calls

====
